---- MODULE Spec2Model ----
(***************************************************************************)
(* A model of the CORS forwarding proxy of this repository:                *)
(*   - `handler` (src/unnamed/part_000, lines 157-412): the lightweight    *)
(*     proxy with its policy gate, target validator, CORS responder,       *)
(*     in-memory rate limiter and forwarder;                               *)
(*   - the two serverless wrappers around cors-anywhere                    *)
(*     (src/api/proxy.js and src/unnamed/part_000, lines 1-155).           *)
(* Strings are TLA+ strings; a character is a string of length one.        *)
(* JavaScript string positions are 0-based and are kept 0-based in the     *)
(* operators that return or take them (indexOf, slice).                    *)
(***************************************************************************)
EXTENDS Integers, Sequences, FiniteSets, TLC

-----------------------------------------------------------------------------
(* JavaScript string primitives used by the source.                        *)

Char(s, i) == SubSeq(s, i, i)


CharsOf(s) == {Char(s, i) : i \in 1..Len(s)}

DigitChars == CharsOf("0123456789")
UpperChars == CharsOf("ABCDEFGHIJKLMNOPQRSTUVWXYZ")
LowerChars == CharsOf("abcdefghijklmnopqrstuvwxyz")
HexChars == CharsOf("0123456789abcdefABCDEF")


\* the lower-case letter of each upper-case letter
LowerOf == [c \in UpperChars |->
              Char("abcdefghijklmnopqrstuvwxyz", CHOOSE i \in 1..26 : Char("ABCDEFGHIJKLMNOPQRSTUVWXYZ", i) = c)]

\* the value of each hexadecimal digit
DigitVal == [c \in HexChars |->
                 ((CHOOSE i \in 1..22 : Char("0123456789abcdefABCDEF", i) = c) - 1)
                 - (IF c \in CharsOf("ABCDEF") THEN 6 ELSE 0)]

RECURSIVE toLowerCase(_)
\* String.prototype.toLowerCase (ASCII)
toLowerCase(s) ==
  IF s = "" THEN "" ELSE (IF Char(s, 1) \in UpperChars THEN LowerOf[Char(s, 1)] ELSE Char(s, 1))
       \o toLowerCase(SubSeq(s, 2, Len(s)))

\* String.prototype.startsWith
startsWith(s, p) == Len(s) >= Len(p) /\ SubSeq(s, 1, Len(p)) = p

RECURSIVE indexOfFrom(_, _, _)
indexOfFrom(s, pat, i) ==
  IF i + Len(pat) > Len(s) THEN -1
  ELSE IF SubSeq(s, i + 1, i + Len(pat)) = pat THEN i
  ELSE indexOfFrom(s, pat, i + 1)

\* String.prototype.indexOf: the 0-based position of the first occurrence, or -1
indexOf(s, pat) == indexOfFrom(s, pat, 0)

\* String.prototype.slice(from), from >= 0
slice(s, from) == SubSeq(s, from + 1, Len(s))

\* the part of s before the 0-based position i
before(s, i) == SubSeq(s, 1, i)

RECURSIVE trimStart(_)
trimStart(s) ==
  IF s # "" /\ Char(s, 1) = " " THEN trimStart(SubSeq(s, 2, Len(s))) ELSE s

RECURSIVE trimEnd(_)
trimEnd(s) ==
  IF s # "" /\ Char(s, Len(s)) = " " THEN trimEnd(SubSeq(s, 1, Len(s) - 1)) ELSE s

\* String.prototype.trim
trim(s) == trimEnd(trimStart(s))

RECURSIVE split(_, _)
\* String.prototype.split(sep) for a one-character separator: never empty
split(s, sep) ==
  LET i == indexOf(s, sep)
  IN  IF i = -1 THEN <<s>> ELSE <<before(s, i)>> \o split(slice(s, i + 1), sep)

RECURSIVE String(_)
\* String(n) for an integer n
String(n) ==
  IF n < 0 THEN "-" \o String(-n)
  ELSE IF n < 10 THEN Char("0123456789", n + 1)
  ELSE String(n \div 10) \o Char("0123456789", (n % 10) + 1)

RECURSIVE digitsPrefix(_)
\* the longest prefix of s made of decimal digits
digitsPrefix(s) ==
  IF s # "" /\ Char(s, 1) \in DigitChars
  THEN Char(s, 1) \o digitsPrefix(SubSeq(s, 2, Len(s)))
  ELSE ""

RECURSIVE numberIn(_, _, _)
\* the value of the digit string s in radix r, continuing from acc
numberIn(s, r, acc) ==
  IF s = "" THEN acc
  ELSE numberIn(SubSeq(s, 2, Len(s)), r, acc * r + DigitVal[Char(s, 1)])

\* parseInt(s, 10): leading white space, an optional sign, then the longest
\* run of digits; NaN when there is no digit
parseInt(s) ==
  LET t == trimStart(s)
      neg == t # "" /\ Char(t, 1) = "-"
      signed == t # "" /\ (Char(t, 1) = "-" \/ Char(t, 1) = "+")
      ds == digitsPrefix(IF signed THEN SubSeq(t, 2, Len(t)) ELSE t)
  IN  IF ds = "" THEN [nan |-> TRUE, val |-> 0]
      ELSE [nan |-> FALSE,
            val |-> IF neg THEN 0 - numberIn(ds, 10, 0) ELSE numberIn(ds, 10, 0)]

\* `x || d` for a number x: NaN and 0 are falsy
orDefault(x, d) == IF x.nan \/ x.val = 0 THEN d ELSE x.val

-----------------------------------------------------------------------------
(* Percent-decoding and the WHATWG URL parser, as far as the source uses   *)
(* them: `new URL(s)` for the protocol and the hostname of a target,       *)
(* `new URL(req.url, base)` for the pathname and the `url` query           *)
(* parameter, and decodeURIComponent for the path-style target.            *)

\* the character of a code below 128; the place of the quotation mark (34)
\* in the punctuation of codes 32 to 47 is not used.  The codes of letters, digits and the
\* punctuation above are decoded; every other code is kept as "^", a
\* character that no test of the source looks for.
CharOfCode(n) ==
  IF n = 34 THEN "^"
  ELSE IF n >= 48 /\ n <= 57 THEN Char("0123456789", n - 47)
  ELSE IF n >= 65 /\ n <= 90 THEN Char("ABCDEFGHIJKLMNOPQRSTUVWXYZ", n - 64)
  ELSE IF n >= 97 /\ n <= 122 THEN Char("abcdefghijklmnopqrstuvwxyz", n - 96)
  ELSE IF n >= 32 /\ n <= 47 THEN Char(" !'#$%&'()*+,-./", n - 31)
  ELSE IF n >= 58 /\ n <= 64 THEN Char(":;<=>?@", n - 57)
  ELSE IF n = 91 THEN "["
  ELSE IF n = 93 THEN "]"
  ELSE IF n = 95 THEN "_"
  ELSE "^"

IsPctTriple(s) ==
  Len(s) >= 3 /\ Char(s, 1) = "%" /\ Char(s, 2) \in HexChars /\ Char(s, 3) \in HexChars

PctCode(s) == 16 * DigitVal[Char(s, 2)] + DigitVal[Char(s, 3)]

RECURSIVE decodeURIComponent(_)
\* decodeURIComponent: [ok, val]; ok = FALSE is the URIError it throws on a
\* malformed escape.  A byte of 0x80 and above opens a multi-byte UTF-8
\* sequence; standing alone it is malformed, and that is the only way the
\* inputs of this model use one.
decodeURIComponent(s) ==
  IF s = "" THEN [ok |-> TRUE, val |-> ""]
  ELSE IF Char(s, 1) # "%"
  THEN LET r == decodeURIComponent(SubSeq(s, 2, Len(s)))
       IN  [ok |-> r.ok, val |-> Char(s, 1) \o r.val]
  ELSE IF ~IsPctTriple(s) \/ PctCode(s) >= 128 THEN [ok |-> FALSE, val |-> ""]
  ELSE LET r == decodeURIComponent(SubSeq(s, 4, Len(s)))
       IN  [ok |-> r.ok, val |-> CharOfCode(PctCode(s)) \o r.val]

RECURSIVE formDecode(_)
\* the decoding URLSearchParams applies to a name or a value: "+" is a
\* space, a well-formed escape is decoded, anything else is kept
formDecode(s) ==
  IF s = "" THEN ""
  ELSE IF Char(s, 1) = "+" THEN " " \o formDecode(SubSeq(s, 2, Len(s)))
  ELSE IF IsPctTriple(s) /\ PctCode(s) < 128
  THEN CharOfCode(PctCode(s)) \o formDecode(SubSeq(s, 4, Len(s)))
  ELSE Char(s, 1) \o formDecode(SubSeq(s, 2, Len(s)))

\* the part of s before the first character of s that is in the set cs
RECURSIVE upTo(_, _)
upTo(s, cs) ==
  IF s = "" \/ Char(s, 1) \in cs THEN ""
  ELSE Char(s, 1) \o upTo(SubSeq(s, 2, Len(s)), cs)

\* pathname of new URL(u, base) for an origin-form request target u
\* ("/path?query"); dot segments and characters the parser would escape do
\* not occur in the request targets of this model
pathnameOf(u) == upTo(u, {"?", "#"})

\* the query of new URL(u, base), without its "?"
searchOf(u) ==
  LET rest == slice(u, Len(pathnameOf(u)))
  IN  IF rest # "" /\ Char(rest, 1) = "?" THEN upTo(slice(rest, 1), {"#"}) ELSE ""

RECURSIVE firstParam(_, _)
\* URLSearchParams.get(name) over the "&"-separated pairs: the decoded value
\* of the first pair of that name.  null is returned as "": the source only
\* tests the result for truthiness, and both are falsy.
firstParam(pairs, name) ==
  IF pairs = << >> THEN ""
  ELSE LET p == Head(pairs)
           i == indexOf(p, "=")
           n == formDecode(IF i = -1 THEN p ELSE before(p, i))
           v == formDecode(IF i = -1 THEN "" ELSE slice(p, i + 1))
       IN  IF p # "" /\ n = name THEN v ELSE firstParam(Tail(pairs), name)

searchParamsGet(u, name) == firstParam(split(searchOf(u), "&"), name)

RECURSIVE lastIndexOfFrom(_, _, _)
lastIndexOfFrom(s, c, i) ==
  IF i < 0 THEN -1
  ELSE IF Char(s, i + 1) = c THEN i
  ELSE lastIndexOfFrom(s, c, i - 1)

\* String.prototype.lastIndexOf for one character
lastIndexOf(s, c) == lastIndexOfFrom(s, c, Len(s) - 1)

AllChars(s, cs) == \A i \in 1..Len(s) : Char(s, i) \in cs

SpecialSchemes == {"http", "https", "ftp", "ws", "wss", "file"}

\* the scheme of an absolute URL string, lower-cased; "" when the string
\* does not start with a scheme (with no base URL the parser then fails)
schemeOf(s) ==
  LET i == indexOf(s, ":")
  IN  IF /\ i > 0
         /\ Char(s, 1) \in UpperChars \cup LowerChars
         /\ \A k \in 1..i : \/ Char(s, k) \in UpperChars \cup LowerChars
                            \/ Char(s, k) \in DigitChars
                            \/ Char(s, k) \in {"+", "-", "."}
      THEN toLowerCase(before(s, i))
      ELSE ""

RECURSIVE stripSlashes(_)
\* a special scheme's authority starts after any run of "/" and "\"
stripSlashes(s) ==
  IF s # "" /\ Char(s, 1) \in {"/", "\\"} THEN stripSlashes(SubSeq(s, 2, Len(s))) ELSE s

RECURSIVE bytesIn(_, _, _)
\* the value of the digit string s in radix r as four bytes, most significant
\* first, and whether it overflows them; continuing from acc = [b, over]
bytesIn(s, r, acc) ==
  IF s = "" THEN acc
  ELSE LET x4 == acc.b[4] * r + DigitVal[Char(s, 1)]
           x3 == acc.b[3] * r + (x4 \div 256)
           x2 == acc.b[2] * r + (x3 \div 256)
           x1 == acc.b[1] * r + (x2 \div 256)
       IN  bytesIn(SubSeq(s, 2, Len(s)), r,
                   [b |-> <<x1 % 256, x2 % 256, x3 % 256, x4 % 256>>,
                    over |-> acc.over \/ x1 >= 256])

\* the radix of a part of an IPv4 host: "0x" opens a hexadecimal number, a
\* leading "0" an octal one
radixOf(part) ==
  IF startsWith(part, "0x") \/ startsWith(part, "0X") THEN 16
  ELSE IF Len(part) >= 2 /\ Char(part, 1) = "0" THEN 8
  ELSE 10

\* the digits of a part after its radix prefix
digitsOf(part, r) ==
  IF r = 16 THEN slice(part, 2) ELSE IF r = 8 THEN slice(part, 1) ELSE part

\* the number the digits ds of a part stand for in radix r: [ok, b, over]
numberOf(part, ds, r) ==
  IF part # "" /\ \A k \in 1..Len(ds) : Char(ds, k) \in HexChars /\ DigitVal[Char(ds, k)] < r
  THEN [ok |-> TRUE] @@ bytesIn(ds, r, [b |-> <<0, 0, 0, 0>>, over |-> FALSE])
  ELSE [ok |-> FALSE, b |-> <<0, 0, 0, 0>>, over |-> FALSE]

ipv4NumberOf(part, r) == numberOf(part, digitsOf(part, r), r)

\* the number a part of an IPv4 host stands for: [ok, b, over]
ipv4Number(part) == ipv4NumberOf(part, radixOf(part))

\* a single trailing empty part is removed
dropEmptyLast(ps) ==
  IF Len(ps) > 1 /\ ps[Len(ps)] = "" THEN SubSeq(ps, 1, Len(ps) - 1) ELSE ps

\* the parts of a host between its dots
hostParts(host) == dropEmptyLast(split(host, "."))

\* the part l is all digits, or a hexadecimal number
numberLike(l) ==
  \/ l # "" /\ AllChars(l, DigitChars)
  \/ (startsWith(l, "0x") \/ startsWith(l, "0X")) /\ ipv4Number(l).ok

lastOf(ps) == ps[Len(ps)]

\* "ends in a number": the last part of the host is a number
endsInNumber(host) == numberLike(lastOf(hostParts(host)))

\* the number of part k leaves the first 4 - m bytes zero
fits(num, k, m) == ~num[k].over /\ \A j \in 1..(4 - m) : num[k].b[j] = 0

\* each part but the last is one byte; the last part fills the bytes that
\* remain
ipv4Valid(num) ==
  /\ Len(num) <= 4
  /\ \A k \in 1..Len(num) : num[k].ok
  /\ \A k \in 1..(Len(num) - 1) : fits(num, k, 1)
  /\ fits(num, Len(num), 5 - Len(num))

\* byte j of the address
byte(num, j) == IF j < Len(num) THEN num[j].b[4] ELSE num[Len(num)].b[j]

ipv4OfNumbers(num) ==
  [ok |-> ipv4Valid(num),
   host |-> IF ipv4Valid(num)
            THEN String(byte(num, 1)) \o "." \o String(byte(num, 2)) \o "."
                 \o String(byte(num, 3)) \o "." \o String(byte(num, 4))
            ELSE ""]

ipv4OfParts(ps) == ipv4OfNumbers([k \in 1..Len(ps) |-> ipv4Number(ps[k])])

\* the IPv4 parser and serializer: [ok, host], host the dotted quad
ipv4Parse(host) == ipv4OfParts(hostParts(host))

ForbiddenHostChars ==
  {" ", "#", "/", ":", "<", ">", "?", "@", "[", "\\", "]", "^", "|", "%"}

\* an IPv6 literal in brackets is lower-cased and serialized in brackets; its
\* text is kept as written (the targets of this model write it in its
\* compressed form)
ipv6Host(raw, inner) ==
  [ok |-> /\ Char(raw, Len(raw)) = "]"
          /\ indexOf(inner, ":") # -1
          /\ \A k \in 1..Len(inner) :
                Char(inner, k) \in HexChars \/ Char(inner, k) \in {":", "."},
   host |-> "[" \o toLowerCase(inner) \o "]"]

\* a domain is parsed as an IPv4 address when it ends in a number
domainHost(dom) ==
  IF \E k \in 1..Len(dom) : Char(dom, k) \in ForbiddenHostChars
  THEN [ok |-> FALSE, host |-> ""]
  ELSE IF endsInNumber(dom) THEN ipv4Parse(dom)
  ELSE [ok |-> TRUE, host |-> dom]

\* the host parser for a special scheme: [ok, host].  A host that is no IPv6
\* literal is percent-decoded and lower-cased
hostParse(raw) ==
  IF raw = "" THEN [ok |-> FALSE, host |-> ""]
  ELSE IF Char(raw, 1) = "[" THEN ipv6Host(raw, SubSeq(raw, 2, Len(raw) - 1))
  ELSE domainHost(toLowerCase(formDecode(raw)))

\* the position of the ":" that opens the port, -1 when there is none
portColon(hp, close) ==
  IF startsWith(hp, "[")
  THEN (IF close = -1 THEN -1 ELSE IF close + 1 < Len(hp) THEN close + 1 ELSE -1)
  ELSE indexOf(hp, ":")

portValid(port) ==
  AllChars(port, DigitChars) /\ Len(port) <= 5 /\ numberIn(port, 10, 0) <= 65535

splitAt(hp, colon) ==
  [host |-> IF colon = -1 THEN hp ELSE before(hp, colon),
   portOk |-> /\ colon # -1 => Char(hp, colon + 1) = ":"
              /\ portValid(IF colon = -1 THEN "" ELSE slice(hp, colon + 1))]

\* the host and the port of an authority without its userinfo
hostPortSplit(hp) == splitAt(hp, portColon(hp, indexOf(hp, "]")))

\* the authority without its userinfo
hostPort(auth) == hostPortSplit(slice(auth, lastIndexOf(auth, "@") + 1))

\* the authority of a special scheme follows any number of slashes
specialAuthority(rest) == upTo(stripSlashes(rest), {"/", "\\", "?", "#"})

\* the authority of any other scheme follows "//"
otherAuthority(rest) ==
  IF startsWith(rest, "//") THEN upTo(slice(rest, 2), {"/", "?", "#"}) ELSE ""

specialURL(scheme, portOk, h) ==
  [ok |-> portOk /\ h.ok, protocol |-> scheme \o ":", hostname |-> h.host]

specialHost(scheme, hp) == specialURL(scheme, hp.portOk, hostParse(hp.host))

urlOf(scheme, rest) ==
  IF scheme = "" THEN [ok |-> FALSE, protocol |-> "", hostname |-> ""]
  ELSE IF scheme \in SpecialSchemes \ {"file"}
  THEN specialHost(scheme, hostPort(specialAuthority(rest)))
  ELSE [ok |-> TRUE, protocol |-> scheme \o ":",
        hostname |-> hostPort(otherAuthority(rest)).host]

urlTrimmed(t) == urlOf(schemeOf(t), slice(t, Len(schemeOf(t)) + 1))

\* new URL(s) without a base: [ok, protocol, hostname]; ok = FALSE is the
\* TypeError it throws.  For http, https, ftp, ws and wss the authority
\* follows the scheme after any number of slashes and must hold a valid,
\* non-empty host.  For every other scheme the hostname is that of the
\* "//" authority when there is one and "" otherwise; it is kept as written.
URL(s) == urlTrimmed(trim(s))

-----------------------------------------------------------------------------
(* The state of the program.                                               *)

VARIABLES
  env,              \* process.env, each variable with its default applied
  allowlist,        \* module constants computed once from env when the
  denylist,         \*   module is loaded (part_000, lines 188-192)
  requiredHeaders,
  credentials,
  rateLimitMax,
  clock,            \* Date.now()
  rlBucket,         \* the Map ip -> {count, reset} of the rate limiter
  pc,               \* per invocation of handler: where it is suspended
  req,              \* per invocation: the inbound request
  res,              \* per invocation: the response being built
  target,           \* per invocation: the resolved target
  calls,            \* per invocation: the outbound calls made by fetch
  upstream,         \* per invocation: the upstream response received
  last,             \* the exchange that completed last, with what it did
  rlLog,            \* the requests the rate limiter counted, in order
  server            \* the cors-anywhere singleton of the wrappers

vars == <<env, allowlist, denylist, requiredHeaders, credentials, rateLimitMax,
          clock, rlBucket, pc, req, res, target, calls, upstream, last, rlLog,
          server>>

cfgVars == <<env, allowlist, denylist, requiredHeaders, credentials, rateLimitMax>>

\* a Map or a plain object with no key
EmptyMap == [k \in {} |-> ""]

\* Map.prototype.set, obj[k] = v
Put(m, k, v) == [x \in DOMAIN m \cup {k} |-> IF x = k THEN v ELSE m[x]]

\* obj[k] || d for a string-valued object: a missing key and "" are falsy
GetOr(m, k, d) == IF k \in DOMAIN m /\ m[k] # "" THEN m[k] ELSE d

RECURSIVE seqFilterTrim(_)
seqFilterTrim(xs) ==
  IF xs = << >> THEN << >>
  ELSE (IF trim(Head(xs)) # "" THEN <<trim(Head(xs))>> ELSE << >>)
       \o seqFilterTrim(Tail(xs))

\* parseCSV: split at the commas, trim each item, drop the empty ones
parseCSV(s) == seqFilterTrim(split(s, ","))

RECURSIVE dedup(_, _)
\* the members of a Set built from the sequence xs, in insertion order
dedup(xs, seen) ==
  IF xs = << >> THEN << >>
  ELSE IF Head(xs) \in seen THEN dedup(Tail(xs), seen)
  ELSE <<Head(xs)>> \o dedup(Tail(xs), seen \cup {Head(xs)})

SeqRange(xs) == {xs[i] : i \in 1..Len(xs)}

\* const allowlist = new Set(parseCSV(ORIGIN_ALLOWLIST))
allowlistOf(e) == SeqRange(parseCSV(e.ORIGIN_ALLOWLIST))

\* const denylist = new Set(parseCSV(ORIGIN_DENYLIST))
denylistOf(e) == SeqRange(parseCSV(e.ORIGIN_DENYLIST))

\* const requiredHeaders = new Set(parseCSV(REQUIRE_HEADER).map(h => h.toLowerCase())),
\* kept as the sequence of its members in insertion order
requiredHeadersOf(e) ==
  LET xs == parseCSV(e.REQUIRE_HEADER)
  IN  dedup([i \in 1..Len(xs) |-> toLowerCase(xs[i])], {})

\* const credentials = ENABLE_CREDENTIALS.toLowerCase() === "true"
credentialsOf(e) == toLowerCase(e.ENABLE_CREDENTIALS) = "true"

\* const rateLimitMax = Math.max(0, parseInt(RATE_LIMIT, 10) || 0)
rateLimitMaxOf(e) ==
  LET n == orDefault(parseInt(e.RATE_LIMIT), 0) IN IF n > 0 THEN n ELSE 0

\* const WINDOW_MS = 10 * 60 * 1000
WINDOW_MS == 600000

hopByHopHeaders ==
  {"connection", "proxy-connection", "keep-alive", "transfer-encoding",
   "upgrade", "te", "trailer", "proxy-authorization", "proxy-authenticate"}

\* function now() { return Date.now(); }
now == clock

-----------------------------------------------------------------------------
(* Bounds and inputs.                                                      *)

\* invocations of handler that may be in flight together
NumHandlers == 2
\* requests counted by the rate limiter in one behaviour
MaxRequests == 3
\* steps of the clock in one behaviour
MaxTicks == 2

Procs == 1..NumHandlers

Absent == "<absent>"

\* the header object of a request: the pairs whose value is not Absent
Headers(pairs) ==
  LET present == {q \in pairs : q[2] # Absent}
  IN  [k \in {q[1] : q \in present} |-> (CHOOSE q \in present : q[1] = k)[2]]

Request(method, url, origin, key, xrw, realip, xff, acrh, remote) ==
  [method |-> method, url |-> url,
   headers |-> Headers({<<"origin", origin>>, <<"x-proxy-key", key>>,
                        <<"x-requested-with", xrw>>, <<"x-real-ip", realip>>,
                        <<"x-forwarded-for", xff>>,
                        <<"access-control-request-headers", acrh>>,
                        <<"connection", "keep-alive">>, <<"host", "proxy.example">>,
                        <<"accept", "*/*">>}),
   remoteAddress |-> remote]

Env(allow, deny, require, key, maxAge, cred, rate) ==
  [ORIGIN_ALLOWLIST |-> allow, ORIGIN_DENYLIST |-> deny, REQUIRE_HEADER |-> require,
   API_KEY |-> key, CORS_MAX_AGE |-> maxAge, ENABLE_CREDENTIALS |-> cred,
   RATE_LIMIT |-> rate]

\* the environment with every variable unset (part_000, lines 169-177)
DefaultEnv == Env("", "", "", "", "600", "false", "0")

\* Spec: the policy gate off, and on with rate limits of 2 and 1
Envs ==
  {DefaultEnv,
   Env("http://a.io", "http://b.io", "", "k", "600", "false", "2"),
   Env("http://a.io, http://b.io", "http://b.io", "X-Requested-With", "k", "60",
       "true", "1")}

\* how a request names its client: x-real-ip, x-forwarded-for and the
\* address of the socket.  The first client is 1.1.1.1, the second 2.2.2.2
Clients ==
  {<<Absent, Absent, "1.1.1.1">>,
   <<Absent, "2.2.2.2, 1.1.1.1", "1.1.1.1">>}

\* Spec: requests that differ in what the policy gate reads, and name no
\* target; their client is 1.1.1.1, by x-real-ip
GateRequests ==
  {Request(m, "/api/proxy", o, k[1], k[2], "1.1.1.1", "3.3.3.3", Absent, "4.4.4.4") :
     m \in {"GET", "OPTIONS"},
     o \in {Absent, "http://a.io", "http://b.io"},
     k \in {<<Absent, Absent>>, <<Absent, "1">>, <<"k", Absent>>, <<"k", "1">>}}

\* Spec: requests that pass every policy of Envs and name a target, from
\* each client
ForwardRequests ==
  {Request(m, "/api/proxy?url=http://t.io/", "http://a.io", "k", "1", c[1], c[2],
           Absent, c[3]) :
     m \in {"GET", "POST", "OPTIONS"}, c \in Clients}

Requests == GateRequests \cup ForwardRequests

\* SpecPolicy: every combination of the policy settings, rate limiting off
PolicyEnvs ==
  {Env(a, d, h, k, g, c, "0") :
     a \in {"", "http://a.io", "http://a.io, http://b.io"},
     d \in {"", "http://b.io", "http://B.io"},
     h \in {"", "X-Requested-With"},
     k \in {"", "k"},
     g \in {"600", "0", "60"},
     c \in {"false", "true"}}

\* SpecPolicy: requests that differ in the headers the policy gate and the
\* CORS responder read
PolicyRequests ==
  {Request(m, "/api/proxy?url=http://t.io/", o, k, x, Absent, Absent, h, "1.1.1.1") :
     m \in {"GET", "OPTIONS"},
     o \in {Absent, "http://a.io", "http://b.io", "http://B.io"},
     k \in {Absent, "k", "x"},
     x \in {Absent, "1"},
     h \in {Absent, "x-custom"}}

\* SpecEntry: the gate open, the gate with an API key and a rate limit, and
\* the gate open in credentials mode
EntryEnvs ==
  {DefaultEnv, Env("", "", "", "k", "600", "false", "1"),
   Env("", "", "", "", "600", "true", "0")}

\* the targets a request names: loopback, private and unique-local literals
\* and public hosts, then other schemes and malformed targets
TargetStrings ==
  {"http://" \o h \o "/" :
     h \in {"127.0.0.1", "10.1.2.3", "192.168.1.1", "172.20.0.5", "[::1]", "[fd00::1]",
            "93.184.216.34", "localhost", "172.32.0.1", "example.com", "127.1"}}
  \cup {"https://93.184.216.34/x?y=1", "ftp://x", "file:///etc/passwd",
        "example.com/path", "http://", "HTTP://Example.com/", "http:example.com",
        "http://user@10.1.2.3:8080/", "http://0x7f.0.0.1/"}

\* SpecEntry: request targets that name no target or whose last segment is no
\* URL, then targets in query style and in path style, plain and
\* percent-encoded
EntryUrls ==
  {"/", "/health", "/api/proxy", "/api/proxy/", "/api/proxy/health", "/favicon.ico",
   "/api/proxy?url="}
  \cup {"/api/proxy?url=" \o t : t \in TargetStrings}
  \cup {"/api/proxy/" \o t : t \in TargetStrings}
  \cup {"/api/proxy/http%3A%2F%2F127.0.0.1%2F", "/api/proxy?url=http%3A%2F%2F%5B%3A%3A1%5D%2F",
        "/api/proxy/%zz"}

EntryRequests ==
  {Request(m, u, Absent, k, Absent, Absent, Absent, Absent, "1.1.1.1") :
     m \in {"GET", "POST", "OPTIONS"}, u \in EntryUrls, k \in {Absent, "k"}}

AllRequests == Requests \cup PolicyRequests \cup EntryRequests

\* the upstream responses fetch may resolve with.  The names of a Headers
\* object are lower-case.  The two redirects differ in their
\* access-control-* headers alone
Upstreams ==
  {[status |-> 200, headers |-> Headers({<<"content-type", "text/plain">>,
                                         <<"vary", "Accept-Encoding">>}),
    body |-> "ok"],
   [status |-> 302,
    headers |-> Headers({<<"location", "https://other.example/">>,
                         <<"connection", "keep-alive">>}),
    body |-> ""],
   [status |-> 302,
    headers |-> Headers({<<"location", "https://other.example/">>,
                         <<"access-control-allow-origin", "http://up.io">>,
                         <<"access-control-allow-credentials", "true">>,
                         <<"connection", "keep-alive">>}),
    body |-> ""],
   [status |-> 201, headers |-> Headers({<<"x-test", "1">>,
                                         <<"transfer-encoding", "chunked">>}),
    body |-> "abc"]}

\* the messages of the errors fetch and arrayBuffer reject with
Failures == {"fetch failed"}

\* the inbound bodies
Bodies == {"", "abc"}

\* String.prototype.toLowerCase on the strings the program lower-cases while
\* it serves a request: the names res.setHeader is called with, the header
\* names of requests and upstream responses, and Origin values.  TLC evaluates a
\* constant once, so the table spares it the recursion at every step.
lowered ==
  [s \in {"Access-Control-Allow-Origin", "Vary", "Access-Control-Allow-Credentials",
          "Access-Control-Expose-Headers", "Access-Control-Allow-Methods",
          "Access-Control-Allow-Headers", "Access-Control-Max-Age", "Content-Type"}
         \cup UNION {DOMAIN r.headers : r \in AllRequests}
         \cup UNION {DOMAIN u.headers : u \in Upstreams}
         \cup {GetOr(r.headers, "origin", "") : r \in AllRequests}
   |-> toLowerCase(s)]

-----------------------------------------------------------------------------
(* Requests and responses.  The header names of an inbound request are     *)
(* lower-case, as Node delivers them; a ServerResponse looks its headers   *)
(* up by lower-cased name.                                                 *)

NoReq == [method |-> "", url |-> "", headers |-> EmptyMap, remoteAddress |-> ""]

\* a fresh ServerResponse: status 200, no header, nothing written, not ended
NewRes == [statusCode |-> 200, headers |-> EmptyMap, body |-> "", ended |-> 0]

NoUpstream == [status |-> 0, headers |-> EmptyMap, body |-> ""]

\* res.setHeader(name, value): the header is stored under its lower-cased name
setHeader(r, name, value) ==
  [r EXCEPT !.headers = Put(@, lowered[name], value)]

\* res.end(data)
end(r, data) == [r EXCEPT !.body = data, !.ended = @ + 1]

\* JSON.stringify({ error: msg }); the messages hold no character that
\* JSON escapes
jsonError(msg) == "{\"error\":\"" \o msg \o "\"}"

\* rateLimitAllow with the threshold itself refused (count < rateLimitMax)
rateLimitAllowBelow(ip) ==
  IF rateLimitMax = 0 THEN [allow |-> TRUE, bucket |-> rlBucket]
  ELSE LET t == now
           rec0 == IF ip \in DOMAIN rlBucket THEN rlBucket[ip]
                   ELSE [count |-> 0, reset |-> t + WINDOW_MS]
           rec1 == IF t > rec0.reset
                   THEN [count |-> 0, reset |-> t + WINDOW_MS]
                   ELSE rec0
           rec2 == [rec1 EXCEPT !.count = @ + 1]
       IN  [allow |-> rec2.count < rateLimitMax, bucket |-> Put(rlBucket, ip, rec2)]

\* rateLimitAllow with a window that never ends
rateLimitAllowNoReset(ip) ==
  IF rateLimitMax = 0 THEN [allow |-> TRUE, bucket |-> rlBucket]
  ELSE LET t == now
           rec0 == IF ip \in DOMAIN rlBucket THEN rlBucket[ip]
                   ELSE [count |-> 0, reset |-> t + WINDOW_MS]
           rec2 == [rec0 EXCEPT !.count = @ + 1]
       IN  [allow |-> rec2.count <= rateLimitMax, bucket |-> Put(rlBucket, ip, rec2)]

\* rateLimitAllow(ip): [allow, bucket], bucket the Map after the call
rateLimitAllow(ip) ==
  IF rateLimitMax = 0 THEN [allow |-> TRUE, bucket |-> rlBucket]
  ELSE LET t == now
           rec0 == IF ip \in DOMAIN rlBucket THEN rlBucket[ip]
                   ELSE [count |-> 0, reset |-> t + WINDOW_MS]
           rec1 == IF t > rec0.reset
                   THEN [count |-> 0, reset |-> t + WINDOW_MS]
                   ELSE rec0
           rec2 == [rec1 EXCEPT !.count = @ + 1]
       IN  [allow |-> rec2.count <= rateLimitMax, bucket |-> Put(rlBucket, ip, rec2)]

\* getClientIP(req)
getClientIP(r) ==
  LET xff == IF "x-forwarded-for" \in DOMAIN r.headers
             THEN trim(split(r.headers["x-forwarded-for"], ",")[1])
             ELSE ""
  IN  IF GetOr(r.headers, "x-real-ip", "") # "" THEN r.headers["x-real-ip"]
      ELSE IF xff # "" THEN xff
      ELSE IF r.remoteAddress # "" THEN r.remoteAddress
      ELSE "0.0.0.0"

\* getTargetFromRequest(req)
getTargetFromRequest(r) ==
  LET q == searchParamsGet(r.url, "url")
      idx == indexOf(r.url, "/api/proxy/")
      part == IF idx = -1 THEN "" ELSE slice(r.url, idx + Len("/api/proxy/"))
      dec == decodeURIComponent(part)
  IN  IF q # "" THEN q
      ELSE IF part # "" THEN (IF dec.ok THEN dec.val ELSE part)
      ELSE ""

\* u.protocol === "http:" || u.protocol === "https:", false when new URL threw
httpProtocol(u) == u.ok /\ (u.protocol = "http:" \/ u.protocol = "https:")

\* isHttpHttps(urlStr)
isHttpHttps(urlStr) == httpProtocol(URL(urlStr))

\* /^172\.(1[6-9]|2\d|3[0-1])\./
matches172(h) ==
  /\ startsWith(h, "172.")
  /\ Len(h) >= 7
  /\ \/ Char(h, 5) = "1" /\ Char(h, 6) \in {"6", "7", "8", "9"}
     \/ Char(h, 5) = "2" /\ Char(h, 6) \in DigitChars
     \/ Char(h, 5) = "3" /\ Char(h, 6) \in {"0", "1"}
  /\ Char(h, 7) = "."

\* the tests of isBlockedPrivateHost on the lower-cased hostname (lines 260-267)
blockedHost(lower) ==
  IF lower \in {"localhost", "0.0.0.0", "127.0.0.1", "::1"} THEN TRUE
  ELSE IF startsWith(lower, "10.") THEN TRUE
  ELSE IF startsWith(lower, "192.168.") THEN TRUE
  ELSE IF matches172(lower) THEN TRUE
  ELSE IF startsWith(lower, "fc") \/ startsWith(lower, "fd") THEN TRUE
  ELSE FALSE

\* the body of isBlockedPrivateHost for the parsed URL u: true when new URL
\* threw (line 268)
blockedURL(u) == IF ~u.ok THEN TRUE ELSE blockedHost(toLowerCase(u.hostname))

\* isBlockedPrivateHost(urlStr)
isBlockedPrivateHost(urlStr) == blockedURL(URL(urlStr))

\* reflectCors(req, res)
reflectCors(r, rs) ==
  LET origin == GetOr(r.headers, "origin", "*")
      rs1 == IF credentials
             THEN setHeader(setHeader(setHeader(rs,
                    "Access-Control-Allow-Origin", origin),
                    "Vary", "Origin"),
                    "Access-Control-Allow-Credentials", "true")
             ELSE setHeader(rs, "Access-Control-Allow-Origin", "*")
  IN  setHeader(rs1, "Access-Control-Expose-Headers", "*")

\* preflight(req, res)
preflight(r, rs) ==
  LET rs1 == setHeader(reflectCors(r, rs), "Access-Control-Allow-Methods",
                       "GET,HEAD,POST,PUT,PATCH,DELETE,OPTIONS")
      reqHeaders == GetOr(r.headers, "access-control-request-headers", "")
      rs2 == IF reqHeaders # ""
             THEN setHeader(rs1, "Access-Control-Allow-Headers", reqHeaders)
             ELSE rs1
      rs3 == setHeader(rs2, "Access-Control-Max-Age",
                       String(orDefault(parseInt(env.CORS_MAX_AGE), 600)))
  IN  end([rs3 EXCEPT !.statusCode = 204], "")

\* fail(res, code, msg)
fail(rs, code, msg) ==
  end(setHeader([rs EXCEPT !.statusCode = code],
                "Content-Type", "application/json; charset=utf-8"),
      jsonError(msg))

\* scrubRequestHeaders(headers): the Headers object handed to fetch, which
\* keeps its names lower-cased
scrubRequestHeaders(headers) ==
  LET keep == {k \in DOMAIN headers :
                 /\ lowered[k] \notin hopByHopHeaders
                 /\ lowered[k] \notin {"host", "content-length", "accept-encoding"}}
  IN  [k \in {lowered[x] : x \in keep} |-> headers[CHOOSE x \in keep : lowered[x] = k]]

\* the upstream headers, none removed
scrubResponseNothing(headers) == headers

\* scrubResponseHeaders(headers)
scrubResponseHeaders(headers) ==
  [k \in {x \in DOMAIN headers : lowered[x] \notin hopByHopHeaders} |-> headers[k]]

\* /^https?:\/\//i.test(target)
httpPrefixed(tgt) ==
  startsWith(toLowerCase(tgt), "http://") \/ startsWith(toLowerCase(tgt), "https://")

\* makeCorsAnywherePath(req); m is the match of /\/api\/proxy\/(.+)/ on the pathname
makeCorsAnywherePath(r) ==
  LET q == searchParamsGet(r.url, "url")
      pathname == pathnameOf(r.url)
      idx == indexOf(pathname, "/api/proxy/")
      m1 == IF idx = -1 THEN "" ELSE slice(pathname, idx + Len("/api/proxy/"))
      dec == decodeURIComponent(m1)
      tgt == IF q # "" THEN q
             ELSE IF m1 # "" THEN (IF dec.ok THEN dec.val ELSE m1)
             ELSE ""
  IN  IF tgt = "" THEN ""
      ELSE IF ~httpPrefixed(tgt) THEN ""
      ELSE "/" \o tgt

-----------------------------------------------------------------------------
(* The pure functions of a request, tabulated over the requests of the     *)
(* model: TLC evaluates each table once, where it would otherwise parse    *)
(* the same URL again at every step.                                       *)

Urls == {r.url : r \in AllRequests}

\* getTargetFromRequest reads req.url alone
resolved == [u \in Urls |-> getTargetFromRequest([url |-> u])]

Targets == {resolved[u] : u \in Urls}

\* new URL(target)
parsed == [t \in Targets |-> URL(t)]

httpHttps == [t \in Targets |-> isHttpHttps(t)]

blockedPrivateHost == [t \in Targets |-> isBlockedPrivateHost(t)]

clientIP == [r \in AllRequests |-> getClientIP(r)]

upstreamHeaders == [h \in {r.headers : r \in AllRequests} |-> scrubRequestHeaders(h)]

\* makeCorsAnywherePath reads req.url alone
corsAnywherePath == [u \in Urls |-> makeCorsAnywherePath([url |-> u])]

\* new URL(req.url, "http://local").pathname
pathnames == [u \in Urls |-> pathnameOf(u)]

\* url.searchParams.get("url")
urlParams == [u \in Urls |-> searchParamsGet(u, "url")]

\* the upstream headers the response keeps when the access-control-* ones
\* are copied with the others
relayedAll == [u \in Upstreams |-> scrubResponseHeaders(u.headers)]

\* the upstream headers the response keeps (part_000, lines 396-401): those
\* scrubResponseHeaders leaves, without the access-control-* ones
relayed ==
  [u \in Upstreams |->
     LET hs == scrubResponseHeaders(u.headers)
     IN  [k \in {x \in DOMAIN hs : ~startsWith(toLowerCase(x), "access-control-")} |->
            hs[k]]]

-----------------------------------------------------------------------------
(* handler (part_000, lines 325-412).  Its code up to the first await runs *)
(* without interruption: run(req) is that code, and what it leaves behind. *)

\* the first of the required headers that the request does not carry, ""
\* when it carries them all: for (const rh of requiredHeaders) if (!(rh in req.headers))
RECURSIVE firstMissing(_, _)
firstMissing(rhs, headers) ==
  IF rhs = << >> THEN ""
  ELSE IF Head(rhs) \notin DOMAIN headers THEN Head(rhs)
  ELSE firstMissing(Tail(rhs), headers)

\* denylist.size && denylist.has(requestOrigin)
originDenied(r) ==
  denylist # {} /\ lowered[GetOr(r.headers, "origin", "")] \in denylist

\* allowlist.size && !allowlist.has(requestOrigin)
originNotAllowed(r) ==
  allowlist # {} /\ lowered[GetOr(r.headers, "origin", "")] \notin allowlist

\* API_KEY && (req.headers["x-proxy-key"] || "") !== API_KEY
keyRejected(r) ==
  env.API_KEY # "" /\ GetOr(r.headers, "x-proxy-key", "") # env.API_KEY

\* req.method || "GET"
methodOf(r) == IF r.method = "" THEN "GET" ELSE r.method

\* the arguments of fetch(target, { method, headers, body, redirect: "manual" })
fetchCall(r, tgt, body) ==
  [url |-> tgt, method |-> methodOf(r), headers |-> upstreamHeaders[r.headers],
   body |-> body, redirect |-> "manual"]

\* the checks of the policy gate, in the order of the code
AllChecks == <<"denylist", "allowlist", "required", "apikey", "ratelimit">>

\* a run that ended the response
finished(rs, bucket, checks) ==
  [res |-> rs, bucket |-> bucket, checks |-> checks, stage |-> "done", target |-> ""]

\* the target checks without the test of the scheme (line 366)
validateAnyScheme(r, rs, bucket, tgt) ==
  IF tgt = ""
  THEN finished(fail(rs, 400, "Provide a target URL via ?url= or path /api/proxy/<url>."),
                bucket, AllChecks)
  ELSE IF blockedPrivateHost[tgt]
  THEN finished(fail(rs, 403, "Target host is blocked."), bucket, AllChecks)
  ELSE [res |-> rs, bucket |-> bucket, checks |-> AllChecks,
        stage |-> IF methodOf(r) \in {"GET", "HEAD"} THEN "fetch" ELSE "body",
        target |-> tgt]

\* the target checks with the rate limiter's record left as it was before
\* the request when the target is turned down
validateRefund(r, rs, bucket, tgt) ==
  IF tgt = ""
  THEN finished(fail(rs, 400, "Provide a target URL via ?url= or path /api/proxy/<url>."),
                rlBucket, AllChecks)
  ELSE IF ~httpHttps[tgt]
  THEN finished(fail(rs, 400, "Only http(s) URLs are allowed."), rlBucket, AllChecks)
  ELSE IF blockedPrivateHost[tgt]
  THEN finished(fail(rs, 403, "Target host is blocked."), rlBucket, AllChecks)
  ELSE [res |-> rs, bucket |-> bucket, checks |-> AllChecks,
        stage |-> IF methodOf(r) \in {"GET", "HEAD"} THEN "fetch" ELSE "body",
        target |-> tgt]

\* the target checks and what follows them (lines 363-391), the policy gate
\* passed: a GET or HEAD calls fetch at once, any other method first awaits
\* the inbound body
validate(r, rs, bucket, tgt) ==
  IF tgt = ""
  THEN finished(fail(rs, 400, "Provide a target URL via ?url= or path /api/proxy/<url>."),
                bucket, AllChecks)
  ELSE IF ~httpHttps[tgt]
  THEN finished(fail(rs, 400, "Only http(s) URLs are allowed."), bucket, AllChecks)
  ELSE IF blockedPrivateHost[tgt]
  THEN finished(fail(rs, 403, "Target host is blocked."), bucket, AllChecks)
  ELSE [res |-> rs, bucket |-> bucket, checks |-> AllChecks,
        stage |-> IF methodOf(r) \in {"GET", "HEAD"} THEN "fetch" ELSE "body",
        target |-> tgt]

\* lines 357-367 with the record of an admitted request written back as it
\* was read before the call
limitedLost(r, rs, rl) ==
  IF ~rl.allow
  THEN finished(fail(rs, 429, "Rate limit exceeded. Try later."), rl.bucket, AllChecks)
  ELSE validate(r, rs, rlBucket, resolved[r.url])

\* lines 357-367: the rate limiter has answered rl for the client
limited(r, rs, rl) ==
  IF ~rl.allow
  THEN finished(fail(rs, 429, "Rate limit exceeded. Try later."), rl.bucket, AllChecks)
  ELSE validate(r, rs, rl.bucket, resolved[r.url])

\* the policy gate with the rate limiter asked first, before the origin, the
\* headers and the key are looked at
gateLimitFirst(r, rs) ==
  IF originDenied(r)
  THEN finished(fail(rs, 403, "Origin denied."), rateLimitAllow(clientIP[r]).bucket,
                <<"denylist">>)
  ELSE IF originNotAllowed(r)
  THEN finished(fail(rs, 403, "Origin not allowed."),
                rateLimitAllow(clientIP[r]).bucket, <<"denylist", "allowlist">>)
  ELSE IF firstMissing(requiredHeaders, r.headers) # ""
  THEN finished(fail(rs, 400, "Missing required header: "
                              \o firstMissing(requiredHeaders, r.headers)),
                rateLimitAllow(clientIP[r]).bucket,
                <<"denylist", "allowlist", "required">>)
  ELSE IF keyRejected(r)
  THEN finished(fail(rs, 401, "Invalid or missing API key."),
                rateLimitAllow(clientIP[r]).bucket,
                <<"denylist", "allowlist", "required", "apikey">>)
  ELSE limited(r, rs, rateLimitAllow(clientIP[r]))

\* the policy gate (lines 334-361) on the response rs reflectCors has set up
gate(r, rs) ==
  IF originDenied(r)
  THEN finished(fail(rs, 403, "Origin denied."), rlBucket, <<"denylist">>)
  ELSE IF originNotAllowed(r)
  THEN finished(fail(rs, 403, "Origin not allowed."), rlBucket,
                <<"denylist", "allowlist">>)
  ELSE IF firstMissing(requiredHeaders, r.headers) # ""
  THEN finished(fail(rs, 400, "Missing required header: "
                              \o firstMissing(requiredHeaders, r.headers)),
                rlBucket, <<"denylist", "allowlist", "required">>)
  ELSE IF keyRejected(r)
  THEN finished(fail(rs, 401, "Invalid or missing API key."), rlBucket,
                <<"denylist", "allowlist", "required", "apikey">>)
  ELSE limited(r, rs, rateLimitAllow(clientIP[r]))

\* handler with the preflight answered after the policy gate
runGated(r) ==
  IF r.method = "OPTIONS" /\ gate(r, reflectCors(r, NewRes)).stage # "done"
  THEN finished(preflight(r, reflectCors(r, NewRes)),
                gate(r, reflectCors(r, NewRes)).bucket, AllChecks)
  ELSE gate(r, reflectCors(r, NewRes))

\* handler(req, res) up to its first await
run(r) ==
  IF r.method = "OPTIONS"
  THEN finished(preflight(r, reflectCors(r, NewRes)), rlBucket, << >>)
  ELSE gate(r, reflectCors(r, NewRes))

\* an exchange as `last` records it: the entry point, the request, the
\* response, the outbound calls made for it, the policy checks evaluated,
\* whether the entry point is through with it, whether it ended by throwing,
\* and the path handed on to cors-anywhere (wrappers only)
Exchange(entry, r, rs, cs, checks, done, threw, handed) ==
  [entry |-> entry, req |-> r, res |-> rs, calls |-> cs, checks |-> checks,
   done |-> done, threw |-> threw, handed |-> handed]

NoExchange == Exchange("none", NoReq, NewRes, << >>, << >>, FALSE, FALSE, "")

\* the slot of invocation p is free again
release(p) ==
  /\ pc' = [pc EXCEPT ![p] = "idle"]
  /\ req' = [req EXCEPT ![p] = NoReq]
  /\ res' = [res EXCEPT ![p] = NewRes]
  /\ target' = [target EXCEPT ![p] = ""]
  /\ calls' = [calls EXCEPT ![p] = << >>]
  /\ upstream' = [upstream EXCEPT ![p] = NoUpstream]

\* the requests the rate limiter counted (rateLimitAllow past line 201), in
\* order: the client IP, the time and the verdict of each
logged(r, out) ==
  IF rateLimitMax > 0 /\ "ratelimit" \in SeqRange(out.checks)
  THEN Append(rlLog, [ip |-> clientIP[r], t |-> now,
                      allow |-> out.res.statusCode # 429])
  ELSE rlLog

-----------------------------------------------------------------------------
(* The actions.                                                            *)

InitWith(e) ==
  /\ env = e
  /\ allowlist = allowlistOf(e)
  /\ denylist = denylistOf(e)
  /\ requiredHeaders = requiredHeadersOf(e)
  /\ credentials = credentialsOf(e)
  /\ rateLimitMax = rateLimitMaxOf(e)
  /\ clock = 0
  /\ rlBucket = EmptyMap
  /\ pc = [p \in Procs |-> "idle"]
  /\ req = [p \in Procs |-> NoReq]
  /\ res = [p \in Procs |-> NewRes]
  /\ target = [p \in Procs |-> ""]
  /\ calls = [p \in Procs |-> << >>]
  /\ upstream = [p \in Procs |-> NoUpstream]
  /\ last = NoExchange
  /\ rlLog = << >>
  /\ server = [w \in {"proxy", "health"} |-> FALSE]

\* the exchange `last` records has been looked at: `last` is a history
\* variable that each step of the program writes, and the program takes its
\* next step when Observe has cleared it
ready == last = NoExchange

\* no invocation of handler is in flight
quiet == \A p \in Procs : pc[p] = "idle"

\* the exchange of invocation p is over: it is recorded and the slot freed
complete(p, rs, threw) ==
  /\ last' = Exchange("handler", req[p], rs, calls[p], AllChecks, TRUE, threw, "")
  /\ release(p)
  /\ UNCHANGED <<cfgVars, clock, rlBucket, rlLog, server>>

\* what an invocation in slot p leaves behind when its code up to the first
\* await has run: out is that run, cs the outbound calls it made
suspend(p, r, out, cs) ==
  /\ rlBucket' = out.bucket
  /\ rlLog' = logged(r, out)
  /\ last' = Exchange("handler", r, out.res, cs, out.checks, out.stage = "done",
                      FALSE, "")
  /\ IF out.stage = "done"
     THEN UNCHANGED <<pc, req, res, target, calls, upstream>>
     ELSE /\ pc' = [pc EXCEPT ![p] = out.stage]
          /\ req' = [req EXCEPT ![p] = r]
          /\ res' = [res EXCEPT ![p] = out.res]
          /\ target' = [target EXCEPT ![p] = out.target]
          /\ calls' = [calls EXCEPT ![p] = cs]
          /\ UNCHANGED upstream

\* a run that stops at fetch has called it with no body
invoked(p, r, out) ==
  suspend(p, r, out,
          IF out.stage = "fetch" THEN <<fetchCall(r, out.target, "")>> ELSE << >>)

\* handler(req, res) is called with request r and runs to its first await;
\* the invocation takes the lowest free slot.  The rate limiter's log is a
\* history: MaxRequests bounds it
handler(p, r) ==
  /\ ready
  /\ pc[p] = "idle"
  /\ \A q \in Procs : q < p => pc[q] # "idle"
  /\ rateLimitMax > 0 => Len(rlLog) < MaxRequests
  /\ invoked(p, r, run(r))
  /\ UNCHANGED <<cfgVars, clock, server>>

\* the inbound stream ends with body b (line 380): fetch is called
BodyEnd(p, b) ==
  /\ ready
  /\ pc[p] = "body"
  /\ pc' = [pc EXCEPT ![p] = "fetch"]
  /\ calls' = [calls EXCEPT ![p] = Append(@, fetchCall(req[p], target[p], b))]
  /\ UNCHANGED <<cfgVars, clock, rlBucket, req, res, target, upstream, last, rlLog,
                 server>>

\* the inbound stream errors (line 381): the await throws outside the try
\* block and handler's promise rejects with the response not ended
BodyError(p) ==
  /\ ready
  /\ pc[p] = "body"
  /\ complete(p, res[p], TRUE)

\* fetch resolves with a redirect and is called again for its Location
FetchResolveFollow(p, u) ==
  /\ ready
  /\ pc[p] = "fetch"
  /\ IF u.status = 302
     THEN /\ calls' = [calls EXCEPT ![p] =
                         Append(@, [@[1] EXCEPT !.url = u.headers["location"]])]
          /\ UNCHANGED <<pc, res, upstream>>
     ELSE /\ res' = [res EXCEPT ![p] =
                       reflectCors(req[p], [@ EXCEPT !.statusCode = u.status])]
          /\ pc' = [pc EXCEPT ![p] = "arrayBuffer"]
          /\ upstream' = [upstream EXCEPT ![p] = u]
          /\ UNCHANGED calls
  /\ UNCHANGED <<cfgVars, clock, rlBucket, req, target, last, rlLog, server>>

\* fetch resolves with upstream response u (lines 386-404): status and
\* headers are copied, the CORS headers set again, and the body awaited
FetchResolve(p, u) ==
  /\ ready
  /\ pc[p] = "fetch"
  /\ LET hs == relayed[u]
         copied == DOMAIN hs
         rs1 == [res[p] EXCEPT
                   !.statusCode = u.status,
                   !.headers = [k \in DOMAIN @ \cup copied |->
                                  IF k \in copied THEN hs[k] ELSE @[k]]]
     IN  res' = [res EXCEPT ![p] = reflectCors(req[p], rs1)]
  /\ pc' = [pc EXCEPT ![p] = "arrayBuffer"]
  /\ upstream' = [upstream EXCEPT ![p] = u]
  /\ UNCHANGED <<cfgVars, clock, rlBucket, req, target, calls, last, rlLog, server>>

\* fetch rejects with message m and is called once more before handler
\* gives up
FetchRejectRetry(p, m) ==
  /\ ready
  /\ pc[p] = "fetch"
  /\ IF Len(calls[p]) < 2
     THEN /\ calls' = [calls EXCEPT ![p] = Append(@, @[1])]
          /\ UNCHANGED <<cfgVars, clock, rlBucket, pc, req, res, target, upstream, last,
                         rlLog, server>>
     ELSE complete(p, fail(res[p], 502, "Upstream fetch failed: " \o m), FALSE)

\* fetch rejects with message m (line 410)
FetchReject(p, m) ==
  /\ ready
  /\ pc[p] = "fetch"
  /\ complete(p, fail(res[p], 502, "Upstream fetch failed: " \o m), FALSE)

\* upstream.arrayBuffer() resolves (lines 407-408)
ArrayBufferResolve(p) ==
  /\ ready
  /\ pc[p] = "arrayBuffer"
  /\ complete(p, end(res[p], upstream[p].body), FALSE)

\* upstream.arrayBuffer() rejects with message m (line 410)
ArrayBufferReject(p, m) ==
  /\ ready
  /\ pc[p] = "arrayBuffer"
  /\ complete(p, fail(res[p], 502, "Upstream fetch failed: " \o m), FALSE)

\* time passes: d is 1 ms or a whole window, and the number of steps taken
\* so far is read off the clock
Tick(d) ==
  /\ ready
  /\ (clock \div WINDOW_MS) + (clock % WINDOW_MS) < MaxTicks
  /\ clock' = clock + d
  /\ UNCHANGED <<cfgVars, rlBucket, pc, req, res, target, calls, upstream, last, rlLog,
                 server>>

-----------------------------------------------------------------------------
(* The serverless wrappers around cors-anywhere.  cors-anywhere itself is  *)
(* a dependency, not code of this repository: a request handed to it       *)
(* leaves the model with the path it was handed on with.  The wrappers     *)
(* share no state with handler: they are called between its invocations.   *)

\* the 400 of src/api/proxy.js, lines 83-85
badRequest(rs) ==
  end(setHeader([rs EXCEPT !.statusCode = 400],
                "Content-Type", "application/json; charset=utf-8"),
      jsonError("Provide target via ?url= or /api/proxy/<url>, only http(s) allowed."))

\* the 400 of part_000, lines 138-146: the object also has an example field
badRequestExample(rs) ==
  end(setHeader([rs EXCEPT !.statusCode = 400],
                "Content-Type", "application/json; charset=utf-8"),
      "{\"error\":\"Provide target via ?url= or /api/proxy/<url>, only http(s) allowed.\","
      \o "\"example\":\"/api/proxy?url=https%3A%2F%2Fhttpbin.org%2Fget\"}")

\* sendHealthJSON(res)
sendHealthJSON(rs) ==
  end(setHeader([rs EXCEPT !.statusCode = 200],
                "Content-Type", "application/json; charset=utf-8"),
      "{\"status\":\"ok\",\"name\":\"cors-anywhere-serverless\",\"usage\":"
      \o "\"GET /api/proxy?url=<absolute-url> or /api/proxy/<encoded-absolute-url>\","
      \o "\"version\":\"1.0.0\"}")

\* sendHealthText(res)
sendHealthText(rs) ==
  end(setHeader([rs EXCEPT !.statusCode = 200],
                "Content-Type", "text/plain; charset=utf-8"),
      "ok")

\* a wrapper that hands every request on, whatever path it computed
wrappedHandsOn(w, r, bad) ==
  /\ last' = Exchange(w, r, NewRes, << >>, << >>, FALSE, FALSE, corsAnywherePath[r.url])
  /\ server' = [server EXCEPT ![w] = TRUE]

\* what either wrapper does with the path it computed: answer 400 itself,
\* or create the server once (initServer) and hand the request on
wrapped(w, r, bad) ==
  LET path == corsAnywherePath[r.url]
  IN  IF path = ""
      THEN /\ last' = Exchange(w, r, bad, << >>, << >>, TRUE, FALSE, "")
           /\ UNCHANGED server
      ELSE /\ last' = Exchange(w, r, NewRes, << >>, << >>, FALSE, FALSE, path)
           /\ server' = [server EXCEPT ![w] = TRUE]

\* module.exports of src/api/proxy.js (lines 79-94)
proxyExports(r) ==
  /\ ready /\ quiet
  /\ wrapped("proxy", r, badRequest(NewRes))
  /\ UNCHANGED <<cfgVars, clock, rlBucket, pc, req, res, target, calls, upstream, rlLog>>

\* module.exports of part_000 (lines 110-155), with its health endpoints
healthExports(r) ==
  LET pathname == pathnames[r.url]
      answered(rs) == /\ last' = Exchange("health", r, rs, << >>, << >>, TRUE, FALSE, "")
                      /\ UNCHANGED server
  IN  /\ ready /\ quiet
      /\ IF r.method = "GET" /\ pathname = "/"
         THEN answered(sendHealthJSON(NewRes))
         ELSE IF r.method = "GET" /\ pathname \in {"/health", "/health/"}
         THEN answered(sendHealthText(NewRes))
         ELSE IF /\ r.method = "GET"
                 /\ pathname \in {"/api/proxy", "/api/proxy/"}
                 /\ urlParams[r.url] = ""
         THEN answered(sendHealthJSON(NewRes))
         ELSE IF r.method = "GET" /\ pathname \in {"/api/proxy/health", "/api/proxy/health/"}
         THEN answered(sendHealthText(NewRes))
         ELSE wrapped("health", r, badRequestExample(NewRes))
      /\ UNCHANGED <<cfgVars, clock, rlBucket, pc, req, res, target, calls, upstream,
                     rlLog>>

-----------------------------------------------------------------------------
(* The specifications.                                                     *)

\* the exchange `last` records is looked at
Observe ==
  /\ ~ready
  /\ last' = NoExchange
  /\ UNCHANGED <<cfgVars, clock, rlBucket, pc, req, res, target, calls, upstream, rlLog,
                 server>>

\* handler is called while no other invocation is in flight
handlerAlone(p, r) == quiet /\ handler(p, r)

Init == \E e \in Envs : InitWith(e)

\* handler under concurrent invocations and a moving clock
Next ==
  \/ \E p \in Procs, r \in Requests : handler(p, r)
  \/ \E p \in Procs, b \in Bodies : BodyEnd(p, b)
  \/ \E p \in Procs : BodyError(p)
  \/ \E p \in Procs, u \in Upstreams : FetchResolve(p, u)
  \/ \E p \in Procs, m \in Failures : FetchReject(p, m)
  \/ \E p \in Procs : ArrayBufferResolve(p)
  \/ \E p \in Procs, m \in Failures : ArrayBufferReject(p, m)
  \/ \E d \in {1, WINDOW_MS} : Tick(d)
  \/ Observe

Spec == Init /\ [][Next]_vars

InitPolicy == \E e \in PolicyEnvs : InitWith(e)

\* handler, one request at a time, under every policy
NextPolicy ==
  \/ \E p \in Procs, r \in PolicyRequests : handlerAlone(p, r)
  \/ \E p \in Procs, u \in Upstreams : FetchResolve(p, u)
  \/ \E p \in Procs, m \in Failures : FetchReject(p, m)
  \/ \E p \in Procs : ArrayBufferResolve(p)
  \/ \E p \in Procs, m \in Failures : ArrayBufferReject(p, m)
  \/ Observe

SpecPolicy == InitPolicy /\ [][NextPolicy]_vars

InitEntry == \E e \in EntryEnvs : InitWith(e)

\* the three entry points, one request at a time, over the targets
NextEntry ==
  \/ \E p \in Procs, r \in EntryRequests : handlerAlone(p, r)
  \/ \E p \in Procs, b \in Bodies : BodyEnd(p, b)
  \/ \E p \in Procs : BodyError(p)
  \/ \E p \in Procs, u \in Upstreams : FetchResolve(p, u)
  \/ \E p \in Procs, m \in Failures : FetchReject(p, m)
  \/ \E p \in Procs : ArrayBufferResolve(p)
  \/ \E p \in Procs, m \in Failures : ArrayBufferReject(p, m)
  \/ \E r \in EntryRequests : proxyExports(r)
  \/ \E r \in EntryRequests : healthExports(r)
  \/ Observe

SpecEntry == InitEntry /\ [][NextEntry]_vars


\* the three entry points when every step of the program and of the inbound
\* stream is taken in the end, and so is the read of an upstream body, while
\* fetch is left to the target: it is called without a signal or a timeout
\* (part_000, lines 386-391), and nothing makes its promise settle
SpecTargetSilent ==
  /\ InitEntry
  /\ [][NextEntry]_vars
  /\ WF_vars(Observe)
  /\ \A p \in Procs :
       /\ WF_vars((\E b \in Bodies : BodyEnd(p, b)) \/ BodyError(p))
       /\ WF_vars(ArrayBufferResolve(p) \/ \E m \in Failures : ArrayBufferReject(p, m))
-----------------------------------------------------------------------------
(* The claims of the specification.  The predicates below state the        *)
(* checks as the specification words them; none is used by the actions.    *)

\* `x` records the code of handler up to its first await, not the end of an
\* exchange that had been suspended
atStart(x) == x.entry = "handler" /\ ~(x.done /\ (x.calls # << >> \/ x.threw))

\* the value of a request header, "" when the request does not carry it
header(r, name) == IF name \in DOMAIN r.headers THEN r.headers[name] ELSE ""

deniedOrigin(r) == denylist # {} /\ header(r, "origin") \in denylist

unlistedOrigin(r) == allowlist # {} /\ header(r, "origin") \notin allowlist

lacksHeader(r) ==
  \E i \in 1..Len(requiredHeaders) : requiredHeaders[i] \notin DOMAIN r.headers

wrongKey(r) == env.API_KEY # "" /\ header(r, "x-proxy-key") # env.API_KEY

\* the client has used up its quota in the window that is open
overQuota(ip) ==
  /\ rateLimitMax > 0
  /\ ip \in DOMAIN rlBucket
  /\ clock <= rlBucket[ip].reset
  /\ rlBucket[ip].count >= rateLimitMax

\* the number of the first check request r fails, 0 when it passes them all
firstFailing(r) ==
  IF deniedOrigin(r) THEN 1
  ELSE IF unlistedOrigin(r) THEN 2
  ELSE IF lacksHeader(r) THEN 3
  ELSE IF wrongKey(r) THEN 4
  ELSE IF overQuota(clientIP[r]) THEN 5
  ELSE 0

\* the status of the error of each check
GateStatus == <<403, 403, 400, 401, 429>>

\* C1: a non-OPTIONS request to handler is answered with the error of the
\* first Policy Gate check it fails, in the order denylist, allowlist,
\* required headers, API key, rate limit (403, 403, 400, 401, 429); no later
\* check is evaluated, and the rate-limit table is left as it was when one of
\* the first four checks fails.  A request that fails none is not answered
\* 401 or 429 and has had all five checks evaluated.
C1_GateOrder ==
  [][(ready /\ atStart(last') /\ last'.req.method # "OPTIONS") =>
       LET k == firstFailing(last'.req)
       IN  /\ k # 0 => /\ last'.res.statusCode = GateStatus[k]
                       /\ last'.res.ended = 1
                       /\ last'.checks = SubSeq(AllChecks, 1, k)
                       /\ last'.calls = << >>
           /\ k \in 1..4 => rlBucket' = rlBucket
           /\ k = 0 => /\ last'.res.statusCode \notin {401, 429}
                       /\ last'.checks = AllChecks]_vars

\* C1 witness: a request with a wrong API key, from a client the rate limiter
\* has already counted once, is answered 401 and leaves the count at one
C1_Witness ==
  /\ atStart(last)
  /\ last.req.method # "OPTIONS"
  /\ ~deniedOrigin(last.req) /\ ~unlistedOrigin(last.req) /\ ~lacksHeader(last.req)
  /\ wrongKey(last.req)
  /\ last.res.statusCode = 401
  /\ clientIP[last.req] \in DOMAIN rlBucket
  /\ rlBucket[clientIP[last.req]].count = 1

-----------------------------------------------------------------------------
\* the scheme of a target as it is written: the text before its first ":",
\* lower-cased
schemeText(t) ==
  IF indexOf(t, ":") = -1 THEN "" ELSE toLowerCase(before(t, indexOf(t, ":")))

\* the target of request r is non-empty, of scheme http or https, and not
\* one that the Target Validator blocks
passesTarget(r) ==
  /\ resolved[r.url] # ""
  /\ schemeText(resolved[r.url]) \in {"http", "https"}
  /\ ~blockedPrivateHost[resolved[r.url]]

\* request r fails none of the four checks that read the request alone
passesPolicy(r) ==
  ~deniedOrigin(r) /\ ~unlistedOrigin(r) /\ ~lacksHeader(r) /\ ~wrongKey(r)

-----------------------------------------------------------------------------
\* the entries of ORIGIN_DENYLIST
configuredDenylist == SeqRange(parseCSV(env.ORIGIN_DENYLIST))

\* C3: a non-OPTIONS request whose Origin header is an entry of the
\* configured origin denylist is answered 403, whatever the allowlist holds
C3_DenylistRejects ==
  (/\ atStart(last)
   /\ last.req.method # "OPTIONS"
   /\ header(last.req, "origin") \in configuredDenylist)
  => last.res.statusCode = 403

-----------------------------------------------------------------------------
\* the entries of the rate limiter's log for client ip
logOf(ip) == SelectSeq(rlLog, LAMBDA e : e.ip = ip)

RECURSIVE positions(_, _, _)
\* the position of each entry of L within its window: a window opens with
\* the first entry and with each entry later than WINDOW_MS after the opening
\* of the window before it; `start` and n are the opening time of the window
\* that is open and the number of entries in it
positions(L, start, n) ==
  IF L = << >> THEN << >>
  ELSE IF n = 0 \/ Head(L).t > start + WINDOW_MS
  THEN <<1>> \o positions(Tail(L), Head(L).t, 1)
  ELSE <<n + 1>> \o positions(Tail(L), start, n + 1)

\* C4: with a threshold N > 0, of the requests of one client IP that reach
\* the rate-limit check within one window exactly the first N are admitted
\* and every later one is answered 429, whatever the requests of other IPs
C4_FirstNAdmitted ==
  rateLimitMax > 0 =>
    \A i \in 1..Len(rlLog) :
      LET L == logOf(rlLog[i].ip)
          P == positions(L, 0, 0)
      IN  \A j \in 1..Len(L) : L[j].allow <=> P[j] <= rateLimitMax

\* C4 witness: with N = 2, three requests of one client in one window were
\* admitted, admitted and answered 429
C4_Witness ==
  /\ rateLimitMax = 2
  /\ Len(rlLog) = 3
  /\ \A i \in 1..3 : rlLog[i].ip = rlLog[1].ip /\ rlLog[i].t <= rlLog[1].t + WINDOW_MS
  /\ rlLog[1].allow /\ rlLog[2].allow /\ ~rlLog[3].allow

-----------------------------------------------------------------------------
\* C5: an OPTIONS request is answered 204 with an empty body, the fixed
\* Access-Control-Allow-Methods, Access-Control-Max-Age of the configured
\* value, Access-Control-Allow-Headers of the Access-Control-Request-Headers
\* it carries, and without an outbound call
C5_Preflight ==
  (last.entry = "handler" /\ last.req.method = "OPTIONS") =>
    /\ last.res.statusCode = 204
    /\ last.res.body = ""
    /\ last.done
    /\ last.calls = << >>
    /\ header(last.res, "access-control-allow-methods")
         = "GET,HEAD,POST,PUT,PATCH,DELETE,OPTIONS"
    /\ header(last.res, "access-control-max-age") = env.CORS_MAX_AGE
    /\ header(last.req, "access-control-request-headers") # "" =>
         header(last.res, "access-control-allow-headers")
           = header(last.req, "access-control-request-headers")

-----------------------------------------------------------------------------
\* C6: every error response of the proxy (400, 401, 403, 429, 502), from
\* any entry point, carries Access-Control-Allow-Origin and
\* Access-Control-Expose-Headers
C6_ErrorsCarryCors ==
  (last.done /\ last.res.statusCode \in {400, 401, 403, 429, 502}) =>
    /\ "access-control-allow-origin" \in DOMAIN last.res.headers
    /\ "access-control-expose-headers" \in DOMAIN last.res.headers

-----------------------------------------------------------------------------
\* C7: in credentials mode every response carries the Origin header of its
\* request as Access-Control-Allow-Origin, never "*", with Vary: Origin and
\* Access-Control-Allow-Credentials: true
C7_CredentialsOrigin ==
  (credentials /\ last.entry = "handler") =>
    /\ header(last.res, "access-control-allow-origin") = header(last.req, "origin")
    /\ header(last.res, "access-control-allow-origin") # "*"
    /\ header(last.res, "vary") = "Origin"
    /\ header(last.res, "access-control-allow-credentials") = "true"

-----------------------------------------------------------------------------
\* the targets of claim C8: the private and loopback hosts in URL form
PrivateTargets ==
  {"http://127.0.0.1/", "http://10.1.2.3/", "http://192.168.1.1/", "http://172.20.0.5/",
   "http://[::1]/", "http://[fd00::1]/"}

\* request r got past the Policy Gate with response rs
pastGate(r, rs) == passesPolicy(r) /\ rs.statusCode # 429

\* C8: a request that got past the Policy Gate is answered 403, with no
\* outbound call, when the host of its target is 127.0.0.1, 10.1.2.3,
\* 192.168.1.1, 172.20.0.5, ::1 or fd00::1, and is forwarded when it is
\* 93.184.216.34
C8_ValidatorRejects ==
  (atStart(last) /\ last.req.method # "OPTIONS" /\ pastGate(last.req, last.res)) =>
    /\ resolved[last.req.url] \in PrivateTargets =>
         last.done /\ last.res.statusCode = 403 /\ last.calls = << >>
    /\ resolved[last.req.url] = "http://93.184.216.34/" => ~last.done

-----------------------------------------------------------------------------
\* C9: a request that got past the Policy Gate with a non-empty target that
\* does not parse as an absolute URL is answered 403, with no outbound call
C9_ParseFailureBlocked ==
  (/\ atStart(last) /\ last.req.method # "OPTIONS" /\ pastGate(last.req, last.res)
   /\ resolved[last.req.url] # ""
   /\ ~parsed[resolved[last.req.url]].ok)
  => last.done /\ last.res.statusCode = 403 /\ last.calls = << >>

-----------------------------------------------------------------------------
\* the path segment after /api/proxy/, "" when there is none
segmentOf(url) ==
  IF indexOf(pathnames[url], "/api/proxy/") = -1 THEN ""
  ELSE slice(pathnames[url], indexOf(pathnames[url], "/api/proxy/") + Len("/api/proxy/"))

\* no target can be resolved for the request: it has no url query parameter
\* and no path segment after /api/proxy/
unresolvable(r) == urlParams[r.url] = "" /\ segmentOf(r.url) = ""

\* the response is a 400 with a JSON error body, and no outbound call was made
missingTarget(x) ==
  /\ x.done
  /\ x.res.statusCode = 400
  /\ startsWith(x.res.body, "{\"error\":\"")
  /\ header(x.res, "content-type") = "application/json; charset=utf-8"
  /\ x.calls = << >>
  /\ x.handed = ""

\* C10 as stated: every request for which no target can be resolved is
\* answered 400 with a JSON error body, and no outbound call is made
C10_NoTarget400 ==
  (last # NoExchange /\ unresolvable(last.req)) => missingTarget(last)

\* the requests the part_000 wrapper answers itself as health checks
healthCheck(r) ==
  r.method = "GET" /\ pathnames[r.url] \in {"/", "/health", "/health/", "/api/proxy",
                                            "/api/proxy/"}

\* C10 amended: a request for which no target can be resolved is answered 400
\* with a JSON error body by handler when it is not an OPTIONS request and
\* got past the Policy Gate, by the src/api/proxy.js wrapper always, and by
\* the part_000 wrapper unless it is one of its health checks, which is
\* answered 200; no outbound call is made and nothing is handed on
C10_NoTarget400PastGate ==
  (last # NoExchange /\ unresolvable(last.req)) =>
    /\ last.calls = << >> /\ last.handed = "" /\ last.done
    /\ (/\ last.entry = "handler" /\ last.req.method # "OPTIONS"
        /\ pastGate(last.req, last.res)) => missingTarget(last)
    /\ last.entry = "proxy" => missingTarget(last)
    /\ last.entry = "health" =>
         IF healthCheck(last.req) THEN last.res.statusCode = 200 ELSE missingTarget(last)

\* C10 witness: under an API key, a GET of /api/proxy that carries the key
\* is answered 400 by handler for its missing target
C10_Witness ==
  /\ last.entry = "handler"
  /\ last.req.method = "GET"
  /\ last.req.url = "/api/proxy"
  /\ env.API_KEY # "" /\ header(last.req, "x-proxy-key") = env.API_KEY
  /\ missingTarget(last)

-----------------------------------------------------------------------------
\* the name of an access-control-* header; the names of an upstream response
\* and of the headers a response holds are lower-case
accessControl(k) == startsWith(k, "access-control-")

\* the access-control-* headers among hs
accessControlOf(hs) == [k \in {x \in DOMAIN hs : accessControl(x)} |-> hs[k]]

\* the headers hs without the access-control-* ones
withoutAccessControl(hs) == [k \in {x \in DOMAIN hs : ~accessControl(x)} |-> hs[k]]

\* two upstream responses that differ at most in their access-control-* headers
sameButAccessControl(u, v) ==
  /\ u.status = v.status /\ u.body = v.body
  /\ withoutAccessControl(u.headers) = withoutAccessControl(v.headers)

\* C11: the access-control-* headers of a relayed response are those the
\* CORS Responder computes from the request and the configuration, whatever
\* access-control-* headers the upstream response carries; two invocations
\* with the same request whose upstream responses differ in access-control-*
\* headers alone hold the same response
C11_CorsAuthoritative ==
  /\ \A p \in Procs :
       pc[p] = "arrayBuffer" =>
         accessControlOf(res[p].headers) = accessControlOf(reflectCors(req[p], NewRes).headers)
  /\ (last.entry = "handler" /\ last.done /\ last.calls # << >>) =>
       accessControlOf(last.res.headers)
         = accessControlOf(reflectCors(last.req, NewRes).headers)
  /\ \A p, q \in Procs :
       (/\ pc[p] = "arrayBuffer" /\ pc[q] = "arrayBuffer"
        /\ req[p] = req[q]
        /\ sameButAccessControl(upstream[p], upstream[q]))
       => res[p] = res[q]

\* C11 witness: two invocations with the same request relay upstream
\* responses of which one alone carries access-control-* headers, outside
\* credentials mode
C11_Witness ==
  /\ ~credentials
  /\ \E p, q \in Procs :
       /\ pc[p] = "arrayBuffer" /\ pc[q] = "arrayBuffer"
       /\ req[p] = req[q]
       /\ sameButAccessControl(upstream[p], upstream[q])
       /\ "access-control-allow-credentials" \in DOMAIN upstream[p].headers
       /\ "access-control-allow-credentials" \notin DOMAIN upstream[q].headers
       /\ "access-control-allow-credentials" \notin DOMAIN res[p].headers
       /\ res[p].headers["access-control-allow-origin"] = "*"
       /\ res[p].statusCode = 302
-----------------------------------------------------------------------------
\* the hop-by-hop headers, as the specification lists them
HopByHop ==
  {"connection", "proxy-connection", "keep-alive", "transfer-encoding", "upgrade", "te",
   "trailer", "proxy-authorization", "proxy-authenticate"}

\* the headers of request r that its outbound call is to carry
forwardable(r) ==
  [k \in DOMAIN r.headers \ (HopByHop \cup {"host", "content-length", "accept-encoding"})
     |-> r.headers[k]]

\* every outbound call made for the request of invocation p carries the
\* headers of the request without the twelve scrubbed ones
outboundScrubbed(p) ==
  \A i \in 1..Len(calls[p]) : calls[p][i].headers = forwardable(req[p])

\* C12 as stated: the outbound request carries none of the twelve scrubbed
\* headers and the relayed response none of the nine hop-by-hop headers, and
\* every other header, of the request and of the upstream response, is kept
C12_NoHopByHop ==
  \A p \in Procs :
    /\ outboundScrubbed(p)
    /\ pc[p] = "arrayBuffer" =>
         /\ DOMAIN res[p].headers \cap HopByHop = {}
         /\ \A k \in DOMAIN upstream[p].headers \ HopByHop :
              k \in DOMAIN res[p].headers /\ res[p].headers[k] = upstream[p].headers[k]

\* C12 amended: as stated, except that an upstream header is not kept when
\* it is an access-control-* header or a header the CORS Responder sets
\* (Vary, in credentials mode)
C12_NoHopByHopButCors ==
  \A p \in Procs :
    /\ outboundScrubbed(p)
    /\ pc[p] = "arrayBuffer" =>
         /\ DOMAIN res[p].headers \cap HopByHop = {}
         /\ \A k \in DOMAIN upstream[p].headers \ HopByHop :
              \/ accessControl(k)
              \/ k \in DOMAIN reflectCors(req[p], NewRes).headers
              \/ k \in DOMAIN res[p].headers /\ res[p].headers[k] = upstream[p].headers[k]

\* C12 witness: a request with Connection, Host and Accept headers has been
\* forwarded with Accept alone of the three, and the response relays an
\* upstream response without its Transfer-Encoding and with its X-Test
C12_Witness ==
  \E p \in Procs :
    /\ pc[p] = "arrayBuffer"
    /\ {"connection", "host", "accept"} \subseteq DOMAIN req[p].headers
    /\ Len(calls[p]) = 1
    /\ DOMAIN calls[p][1].headers \cap {"connection", "host", "accept"} = {"accept"}
    /\ "transfer-encoding" \in DOMAIN upstream[p].headers
    /\ "transfer-encoding" \notin DOMAIN res[p].headers
    /\ res[p].headers["x-test"] = "1"
-----------------------------------------------------------------------------
\* the step ends the exchange of invocation p by relaying the upstream
\* response: its body has been read
relays(p) == pc[p] = "arrayBuffer" /\ ArrayBufferResolve(p)

\* C13 as stated: an admitted request makes exactly one outbound call, a
\* redirect is not followed by a second one, and the response that relays
\* the result has the status and the body of the upstream response, each of
\* its headers that is neither hop-by-hop nor access-control-*, and the
\* proxy's CORS headers
C13_RelayedVerbatim ==
  [][\A p \in Procs :
       /\ pc'[p] \in {"fetch", "arrayBuffer"} => Len(calls'[p]) = 1
       /\ relays(p) =>
            /\ Len(last'.calls) = 1
            /\ last'.res.statusCode = upstream[p].status
            /\ last'.res.body = upstream[p].body
            /\ last'.res.ended = 1
            /\ {"access-control-allow-origin", "access-control-expose-headers"}
                 \subseteq DOMAIN last'.res.headers
            /\ \A k \in DOMAIN upstream[p].headers \ HopByHop :
                 \/ accessControl(k)
                 \/ /\ k \in DOMAIN last'.res.headers
                    /\ last'.res.headers[k] = upstream[p].headers[k]]_vars

\* C13 amended: as stated, except that an upstream header the CORS Responder
\* sets itself (Vary, in credentials mode) has the Responder's value
C13_RelayedButCors ==
  [][\A p \in Procs :
       /\ pc'[p] \in {"fetch", "arrayBuffer"} => Len(calls'[p]) = 1
       /\ relays(p) =>
            /\ Len(last'.calls) = 1
            /\ last'.res.statusCode = upstream[p].status
            /\ last'.res.body = upstream[p].body
            /\ last'.res.ended = 1
            /\ {"access-control-allow-origin", "access-control-expose-headers"}
                 \subseteq DOMAIN last'.res.headers
            /\ \A k \in DOMAIN upstream[p].headers \ HopByHop :
                 \/ accessControl(k)
                 \/ /\ k \in DOMAIN reflectCors(req[p], NewRes).headers
                    /\ last'.res.headers[k] = reflectCors(req[p], NewRes).headers[k]
                 \/ /\ k \in DOMAIN last'.res.headers
                    /\ last'.res.headers[k] = upstream[p].headers[k]]_vars

\* C13 witness: a redirect has been relayed with its status and its Location
\* header after one outbound call
C13_Witness ==
  /\ last.entry = "handler" /\ last.done
  /\ last.res.statusCode = 302
  /\ Len(last.calls) = 1
  /\ "location" \in DOMAIN last.res.headers
  /\ last.res.headers["location"] = "https://other.example/"
  /\ "access-control-allow-origin" \in DOMAIN last.res.headers
-----------------------------------------------------------------------------
\* C14: when fetch fails, the exchange ends with status 502 and a JSON body
\* whose error carries the message of the failure, after one outbound call;
\* no invocation ever makes a second outbound call
C14_FailureIs502 ==
  [][\A p \in Procs :
       /\ Len(calls'[p]) <= 1
       /\ (pc[p] = "fetch" /\ pc'[p] = "idle") =>
            /\ last'.entry = "handler" /\ last'.done
            /\ last'.req = req[p]
            /\ last'.res.statusCode = 502
            /\ last'.res.ended = 1
            /\ last'.res.headers["content-type"] = "application/json; charset=utf-8"
            /\ \E m \in Failures :
                 /\ indexOf(last'.res.body, m) # -1
                 /\ last'.res.body = "{\"error\":\"Upstream fetch failed: " \o m \o "\"}"
            /\ Len(last'.calls) = 1]_vars

\* C14 witness: the fetch of a POST, called with the body read, has failed
\* and the exchange ended with 502 after that one call
C14_Witness ==
  /\ last.entry = "handler" /\ last.done
  /\ last.req.method = "POST"
  /\ last.res.statusCode = 502
  /\ Len(last.calls) = 1 /\ last.calls[1].body = "abc"
  /\ last.res.ended = 1
-----------------------------------------------------------------------------
\* C15: an outbound call does not stay pending for ever: an invocation that
\* waits for fetch leaves that wait, and its request is answered
C15_FetchBounded ==
  \A p \in Procs : (pc[p] = "fetch") ~> (pc[p] = "idle")
-----------------------------------------------------------------------------
\* the step takes a request of client ip to the rate-limit check
counts(ip) ==
  /\ Len(rlLog') = Len(rlLog) + 1
  /\ rlLog'[Len(rlLog')].ip = ip

\* C16: a request that reaches the rate-limit check later than the reset
\* time recorded for its IP restarts the record at count 1 with the reset
\* time now + WINDOW_MS and, the threshold being at least 1, is admitted;
\* while the reset time of a record stays, its count does not decrease
C16_WindowReset ==
  [][\A ip \in DOMAIN rlBucket :
       /\ ip \in DOMAIN rlBucket'
       /\ rlBucket'[ip].reset = rlBucket[ip].reset =>
            rlBucket'[ip].count >= rlBucket[ip].count
       /\ (counts(ip) /\ clock > rlBucket[ip].reset) =>
            /\ rlBucket'[ip] = [count |-> 1, reset |-> clock + WINDOW_MS]
            /\ rlLog'[Len(rlLog')].allow
            /\ last'.res.statusCode # 429
       /\ (counts(ip) /\ clock <= rlBucket[ip].reset) =>
            rlBucket'[ip] = [count |-> rlBucket[ip].count + 1,
                             reset |-> rlBucket[ip].reset]]_vars

\* C16 witness: with a threshold of 1 a client has been admitted, answered
\* 429 in the same window, and admitted again after the window had elapsed
C16_Witness ==
  /\ rateLimitMax = 1
  /\ Len(rlLog) = 3
  /\ \A i \in 1..3 : rlLog[i].ip = rlLog[1].ip
  /\ rlLog[1].allow /\ ~rlLog[2].allow /\ rlLog[3].allow
  /\ rlLog[2].t <= rlLog[1].t + WINDOW_MS
  /\ rlLog[3].t > rlLog[1].t + WINDOW_MS
  /\ rlBucket[rlLog[1].ip] = [count |-> 1, reset |-> rlLog[3].t + WINDOW_MS]
-----------------------------------------------------------------------------
\* the entries of the log for client ip in the window that is open for it
inWindow(ip) ==
  SelectSeq(rlLog, LAMBDA e : e.ip = ip /\ e.t >= rlBucket[ip].reset - WINDOW_MS)

\* the entries of L that were admitted
admitted(L) == SelectSeq(L, LAMBDA e : e.allow)

\* C17: however the invocations interleave, the count recorded for an IP is
\* the number of its requests that reached the rate-limit check in the
\* window that is open, and at most rateLimitMax of them were admitted
C17_NoLostUpdate ==
  rateLimitMax > 0 =>
    /\ \A i \in 1..Len(rlLog) : rlLog[i].ip \in DOMAIN rlBucket
    /\ \A ip \in DOMAIN rlBucket :
         /\ rlBucket[ip].count = Len(inWindow(ip))
         /\ Len(admitted(inWindow(ip))) <= rateLimitMax

\* C17 witness: two invocations for requests of one client are in flight
\* together, one awaiting the inbound body and one awaiting fetch, and the
\* record of the client counts them both
C17_Witness ==
  /\ rateLimitMax = 2
  /\ \E p, q \in Procs :
       /\ pc[p] = "body" /\ pc[q] = "fetch"
       /\ clientIP[req[p]] = clientIP[req[q]]
       /\ rlBucket[clientIP[req[p]]].count = 2
       /\ Len(admitted(inWindow(clientIP[req[p]]))) = 2
-----------------------------------------------------------------------------
\* C18: the response of every request given to handler is ended once: no
\* response is ended twice, and when handler is through with a request its
\* response has been ended
C18_EndedOnce ==
  /\ \A p \in Procs : res[p].ended <= 1
  /\ (last.entry = "handler" /\ last.done) => last.res.ended = 1
-----------------------------------------------------------------------------
\* the step calls handler with an OPTIONS request
preflighted == ready /\ last'.entry = "handler" /\ last'.req.method = "OPTIONS"

\* C19: an OPTIONS request is answered 204 with none of the Policy Gate
\* checks evaluated, and the rate limiter's table is left as it was
C19_OptionsBypass ==
  [][preflighted =>
       /\ last'.done
       /\ last'.res.statusCode = 204
       /\ last'.res.statusCode \notin {400, 401, 403, 429}
       /\ last'.checks = << >>
       /\ rlBucket' = rlBucket
       /\ rlLog' = rlLog]_vars

\* C19 witness: an OPTIONS request from a denylisted origin, without the API
\* key, of a client that has used up its quota, has been answered 204
C19_Witness ==
  /\ last.entry = "handler" /\ last.req.method = "OPTIONS"
  /\ deniedOrigin(last.req) /\ wrongKey(last.req)
  /\ overQuota(clientIP[last.req])
  /\ last.res.statusCode = 204
-----------------------------------------------------------------------------
\* the step calls handler with a request
called == ready /\ last'.entry = "handler" /\ atStart(last')

\* the count of client ip after one more request in the window that is open
counted(ip) ==
  IF ip \in DOMAIN rlBucket /\ clock <= rlBucket[ip].reset
  THEN rlBucket[ip].count + 1
  ELSE 1

\* C20: with rate limiting enabled, the count of an IP goes up by one, from
\* 0 in a new window, with each non-OPTIONS request of that IP that passes
\* the denylist, allowlist, required-header and API-key checks, whatever
\* the request is answered then and later, and nothing else changes a count
C20_CountsPassed ==
  [][rateLimitMax > 0 =>
       IF called /\ last'.req.method # "OPTIONS" /\ passesPolicy(last'.req)
       THEN /\ DOMAIN rlBucket' = DOMAIN rlBucket \cup {clientIP[last'.req]}
            /\ \A ip \in DOMAIN rlBucket' :
                 IF ip = clientIP[last'.req]
                 THEN rlBucket'[ip].count = counted(ip)
                 ELSE rlBucket'[ip] = rlBucket[ip]
       ELSE rlBucket' = rlBucket]_vars

\* C20 witness: two requests of a client reached the rate-limit check in one
\* window, the fetch of one has failed with 502, and both are counted
C20_Witness ==
  /\ rateLimitMax = 2
  /\ last.entry = "handler" /\ last.done /\ last.res.statusCode = 502
  /\ Len(rlLog) = 2 /\ rlLog[1].ip = rlLog[2].ip /\ rlLog[1].ip = clientIP[last.req]
  /\ rlLog[2].t <= rlLog[1].t + WINDOW_MS
  /\ rlBucket[clientIP[last.req]].count = 2
====
